---- MODULE Spec2Model ----
(***************************************************************************)
(* A model of mypyrender.offscreen.OffscreenRenderer (the life cycle of    *)
(* the backend/renderer pair and the flag translation of render()) and of  *)
(* the turntable procedure main() of render_360degree.py.                  *)
(*                                                                         *)
(* Objects of the rendering library live on two heaps, `platforms` and     *)
(* `renderers`; a reference is an index into its heap and 0 is None, so    *)
(* object identity is the index.  Every call into the library may raise:   *)
(* an operation takes the name `f` of the one call that raises in it       *)
(* (NoFail: none does).  `calls` is the order of the library calls the     *)
(* last operation made, `last` what it was given and how it ended.         *)
(***************************************************************************)
EXTENDS Integers, Sequences, FiniteSets, TLC

VARIABLES
    pc,              \* "new", "live" (constructed), "failed" (__init__ raised), "dead" (__del__ ran)
    os_environ,      \* os.environ, restricted to the two variables _create reads
    viewport_width,  \* self._viewport_width
    viewport_height, \* self._viewport_height
    render_flags,    \* self._render_flags
    platform,        \* self._platform  (0 is None)
    renderer,        \* self._renderer  (0 is None)
    platforms,       \* heap of backend objects
    renderers,       \* heap of Renderer objects
    calls,           \* library calls of the last operation, in order
    last             \* the last operation: its name, arguments and outcome

\* the procedure main() of render_360degree.py
VARIABLES
    mpc,         \* "idle", "start", "loop", "done", "raised", "exited"
    args,        \* the arguments of main and the mesh file's content
    mexc,        \* the exception main ended with
    mesh,        \* the dict `mesh`; its vertices are mesh.v / denom
    denom,       \* the common denominator of the coordinates in mesh.v
    scene,       \* the names of the nodes in the scene
    human_node,  \* the mesh the scene's mesh node holds
    view_id,     \* iterations of the loop completed
    frames,      \* what each render(scene) call was given to draw, in order
    shown        \* frames handed to cv2.imshow

rvars == <<pc, os_environ, viewport_width, viewport_height,
           render_flags, platform, renderer, platforms, renderers, calls, last>>

tvars == <<mpc, args, mexc, mesh, denom, scene, human_node, view_id, frames, shown>>

vars == <<rvars, tvars>>

\* ------------------------------------------------------------ bounds
MaxPlatforms == 2
MaxViewport == 2
MaxViewNum == 12

\* ------------------------------------------------------------ values
NoFail == "none"
NoExc == ""

\* the widths and heights given to the object: pairs of bounded perimeter
ViewportSizes == {s \in (1..MaxViewport) \X (1..MaxViewport) : s[1] + s[2] <= MaxViewport + 1}

ModeFlags == {"FLIP_WIREFRAME", "ALL_WIREFRAME", "ALL_SOLID"}

\* self._default_render_flags
default_render_flags ==
    [flip_wireframe |-> FALSE, all_wireframe |-> FALSE, all_solid |-> FALSE,
     shadows |-> FALSE, vertex_normals |-> FALSE, face_normals |-> FALSE,
     cull_faces |-> TRUE]

\* every value of the seven boolean flags
RenderFlagChoices ==
    [flip_wireframe : BOOLEAN, all_wireframe : BOOLEAN, all_solid : BOOLEAN,
     shadows : BOOLEAN, vertex_normals : BOOLEAN, face_normals : BOOLEAN,
     cull_faces : BOOLEAN]

\* the flags argument of render(): RenderFlags.NONE, and words with and without mode bits
ArgFlagChoices == {{}, {"DEPTH_ONLY"}, {"RGBA", "ALL_SOLID"}, {"FLIP_WIREFRAME", "ALL_WIREFRAME"}}

\* os.environ: PYOPENGL_PLATFORM unset or set, and for egl EGL_DEVICE_ID unset or set
EnvChoices ==
    {<<>>}
    \cup {("PYOPENGL_PLATFORM" :> v) : v \in {"egl", "osmesa", "", "pyglet"}}
    \cup {("PYOPENGL_PLATFORM" :> "egl") @@ ("EGL_DEVICE_ID" :> v) : v \in {"1", "gpu"}}

\* ------------------------------------------------------------ the world an operation acts on
World ==
    [plat |-> platform, rend |-> renderer, platforms |-> platforms,
     renderers |-> renderers, calls |-> <<>>, exc |-> NoExc, swallowed |-> NoExc,
     fwd |-> {}, ret |-> ""]

Raise(w, e) == [w EXCEPT !.exc = e]

Call(w, name) == [w EXCEPT !.calls = Append(@, name)]

\* int(s) of the device index; -1 stands for the ValueError of a malformed number
ParseInt(s) == CASE s = "0" -> 0 [] s = "1" -> 1 [] OTHER -> -1

device_id(env) ==
    ParseInt(IF "EGL_DEVICE_ID" \in DOMAIN env THEN env["EGL_DEVICE_ID"] ELSE "0")

\* PlatformKind, a value that is empty read as no value
PlatformKind_EmptyAsUnset(env) ==
    IF "PYOPENGL_PLATFORM" \notin DOMAIN env \/ env["PYOPENGL_PLATFORM"] = "" THEN "pyglet"
    ELSE IF env["PYOPENGL_PLATFORM"] = "egl" THEN "egl"
    ELSE IF env["PYOPENGL_PLATFORM"] = "osmesa" THEN "osmesa"
    ELSE "unsupported"

\* the branch of _create taken for the environment
PlatformKind(env) ==
    IF "PYOPENGL_PLATFORM" \notin DOMAIN env THEN "pyglet"
    ELSE IF env["PYOPENGL_PLATFORM"] = "egl" THEN "egl"
    ELSE IF env["PYOPENGL_PLATFORM"] = "osmesa" THEN "osmesa"
    ELSE "unsupported"

NewPlatform(kind, vw, vh, dev, fb) ==
    [kind |-> kind, viewport_width |-> vw, viewport_height |-> vh, device |-> dev,
     supports_framebuffers |-> fb, inited |-> FALSE, current |-> FALSE,
     deleted |-> FALSE]

NewRenderer(vw, vh) ==
    [viewport_width |-> vw, viewport_height |-> vh, deleted |-> FALSE]

\* self._platform.supports_framebuffers(): what the backend object answers
SupportsFramebuffers(p) == p.supports_framebuffers

\* self._platform.make_current(), the call at source line `at`
MakeCurrent(w, f, at) ==
    IF w.plat = 0 THEN Raise(w, "AttributeError")
    ELSE IF f = at THEN Raise(Call(w, "make_current"), "LibError")
    ELSE [Call(w, "make_current") EXCEPT !.platforms[w.plat].current = TRUE]

\* lines 224-226 of _create: init_context, make_current, Renderer(...)
CreateTail(w, f, vw, vh) ==
    IF f = "init_context" THEN Raise(Call(w, "init_context"), "LibError")
    ELSE LET w1 == [Call(w, "init_context") EXCEPT !.platforms[w.plat].inited = TRUE]
             w2 == MakeCurrent(w1, f, "make_current@225")
         IN  IF w2.exc # NoExc THEN w2
             ELSE IF f = "Renderer" THEN Raise(Call(w2, "Renderer"), "LibError")
             ELSE [Call(w2, "Renderer") EXCEPT
                      !.renderers = Append(@, NewRenderer(vw, vh)),
                      !.rend = Len(w2.renderers) + 1]

\* OffscreenRenderer._create
create(w, f, env, vw, vh, fb) ==
    LET kind == PlatformKind(env)
        dev == IF kind = "egl" THEN device_id(env) ELSE -1
    IN  IF kind = "unsupported" THEN Raise(w, "ValueError")
        ELSE IF kind = "egl" /\ dev < 0 THEN Raise(w, "ValueError")
        ELSE IF kind = "egl" /\ f = "get_device_by_index"
             THEN Raise(Call(w, "get_device_by_index"), "LibError")
        ELSE LET w0 == IF kind = "egl" THEN Call(w, "get_device_by_index") ELSE w
             IN  IF f = "Platform" THEN Raise(Call(w0, "Platform"), "LibError")
                 ELSE CreateTail(
                        [Call(w0, "Platform") EXCEPT
                            !.platforms = Append(@, NewPlatform(kind, vw, vh, dev, fb)),
                            !.plat = Len(w0.platforms) + 1],
                        f, vw, vh)

\* delete, the context released before the renderer
delete_ContextFirst(w, f) ==
    IF w.plat = 0 THEN Raise(w, "AttributeError")
    ELSE IF f = "delete_context" THEN Raise(Call(w, "delete_context"), "LibError")
    ELSE LET w1 == [Call(w, "delete_context") EXCEPT !.platforms[w.plat].deleted = TRUE]
         IN  IF w1.rend = 0 THEN Raise(w1, "AttributeError")
             ELSE IF f = "Renderer.delete"
                  THEN Raise(Call(w1, "Renderer.delete"), "LibError")
             ELSE [Call(w1, "Renderer.delete") EXCEPT
                      !.renderers[w1.rend].deleted = TRUE,
                      !.rend = 0, !.plat = 0]

\* OffscreenRenderer.delete
delete(w, f) ==
    IF w.rend = 0 THEN Raise(w, "AttributeError")
    ELSE IF f = "Renderer.delete" THEN Raise(Call(w, "Renderer.delete"), "LibError")
    ELSE LET w1 == [Call(w, "Renderer.delete") EXCEPT !.renderers[w.rend].deleted = TRUE]
         IN  IF w1.plat = 0 THEN Raise(w1, "AttributeError")
             ELSE IF f = "delete_context"
                  THEN Raise(Call(w1, "delete_context"), "LibError")
             ELSE [Call(w1, "delete_context") EXCEPT
                      !.platforms[w1.plat].deleted = TRUE,
                      !.rend = 0, !.plat = 0]

\* TranslateFlags, the three mode flags tested independently (if for elif)
TranslateFlags_NoPriority(rf, flags) ==
    flags
    \cup (IF rf.flip_wireframe THEN {"FLIP_WIREFRAME"} ELSE {})
    \cup (IF rf.all_wireframe THEN {"ALL_WIREFRAME"} ELSE {})
    \cup (IF rf.all_solid THEN {"ALL_SOLID"} ELSE {})
    \cup (IF rf.shadows THEN {"SHADOWS_DIRECTIONAL", "SHADOWS_SPOT"} ELSE {})
    \cup (IF rf.vertex_normals THEN {"VERTEX_NORMALS"} ELSE {})
    \cup (IF rf.face_normals THEN {"FACE_NORMALS"} ELSE {})
    \cup (IF ~rf.cull_faces THEN {"SKIP_CULL_FACES"} ELSE {})

\* lines 169-182 of render: the stored flags or-ed into the flag word
TranslateFlags(rf, flags) ==
    flags
    \cup (IF rf.flip_wireframe THEN {"FLIP_WIREFRAME"}
          ELSE IF rf.all_wireframe THEN {"ALL_WIREFRAME"}
          ELSE IF rf.all_solid THEN {"ALL_SOLID"}
          ELSE {})
    \cup (IF rf.shadows THEN {"SHADOWS_DIRECTIONAL", "SHADOWS_SPOT"} ELSE {})
    \cup (IF rf.vertex_normals THEN {"VERTEX_NORMALS"} ELSE {})
    \cup (IF rf.face_normals THEN {"FACE_NORMALS"} ELSE {})
    \cup (IF ~rf.cull_faces THEN {"SKIP_CULL_FACES"} ELSE {})

\* Recreate, the height alone compared
Recreate_HeightOnly(w, f, env, vw, vh, fb) ==
    LET p == w.platforms[w.plat]
    IN  IF p.viewport_height # vh /\ ~SupportsFramebuffers(p)
        THEN LET d == delete(w, f)
             IN  IF d.exc # NoExc THEN d ELSE create(d, f, env, vw, vh, fb)
        ELSE w

\* lines 158-162 of render: destroy and restart a backend that cannot resize
Recreate(w, f, env, vw, vh, fb) ==
    LET p == w.platforms[w.plat]
    IN  IF (p.viewport_height # vh \/ p.viewport_width # vw) /\ ~SupportsFramebuffers(p)
        THEN LET d == delete(w, f)
             IN  IF d.exc # NoExc THEN d ELSE create(d, f, env, vw, vh, fb)
        ELSE w

\* lines 184-193 of render: the render pass and the read-back
RenderPass(w, f, fl) ==
    IF SupportsFramebuffers(w.platforms[w.plat])
    THEN LET w1 == [Call(w, "Renderer.render") EXCEPT !.fwd = fl \cup {"OFFSCREEN"}]
         IN  IF f = "Renderer.render" THEN Raise(w1, "LibError")
             ELSE [w1 EXCEPT !.ret = "renderer_result"]
    ELSE LET w1 == [Call(w, "Renderer.render") EXCEPT !.fwd = fl]
         IN  IF f = "Renderer.render" THEN Raise(w1, "LibError")
             ELSE IF f = "read_depth_buf" THEN Raise(Call(w1, "read_depth_buf"), "LibError")
             ELSE LET w2 == Call(w1, "read_depth_buf")
                  IN  IF "DEPTH_ONLY" \in fl THEN [w2 EXCEPT !.ret = "depth"]
                      ELSE IF f = "read_color_buf"
                           THEN Raise(Call(w2, "read_color_buf"), "LibError")
                      ELSE [Call(w2, "read_color_buf") EXCEPT !.ret = "color_depth"]

\* OffscreenRenderer.render
render(w, f, env, vw, vh, rf, flags, fb) ==
    LET w1 == MakeCurrent(w, f, "make_current@155")
    IN  IF w1.exc # NoExc THEN w1
        ELSE LET w2 == Recreate(w1, f, env, vw, vh, fb)
             IN  IF w2.exc # NoExc THEN w2
                 ELSE LET w3 == MakeCurrent(w2, f, "make_current@164")
                      IN  IF w3.exc # NoExc THEN w3
                          ELSE IF w3.rend = 0 THEN Raise(w3, "AttributeError")
                          ELSE RenderPass(
                                 [w3 EXCEPT !.renderers[w3.rend].viewport_width = vw,
                                            !.renderers[w3.rend].viewport_height = vh],
                                 f, TranslateFlags(rf, flags))

\* __del__ without its try
del_Unguarded(w, f) == delete(w, f)

\* OffscreenRenderer.__del__
del(w, f) ==
    LET d == delete(w, f)
    IN  IF d.exc # NoExc THEN [d EXCEPT !.exc = NoExc, !.swallowed = d.exc] ELSE d

\* the library calls that can raise in _create, in delete and in render
CreateFails ==
    {NoFail, "get_device_by_index", "Platform", "init_context", "make_current@225",
     "Renderer"}

DeleteFails == {NoFail, "Renderer.delete", "delete_context"}

RenderFails ==
    CreateFails \cup DeleteFails
    \cup {"make_current@155", "make_current@164", "Renderer.render", "read_depth_buf",
          "read_color_buf"}

\* ------------------------------------------------------------ the operations
\* what an operation leaves behind: the object's references, the heaps, the record
Outcome(op, flags, w) ==
    /\ platform' = w.plat
    /\ renderer' = w.rend
    /\ platforms' = w.platforms
    /\ renderers' = w.renderers
    /\ calls' = w.calls
    /\ last' = [op |-> op, arg |-> flags, exc |-> w.exc, swallowed |-> w.swallowed,
                fwd |-> w.fwd, ret |-> w.ret,
                old_platform |-> platform, old_renderer |-> renderer]

\* OffscreenRenderer(viewport_width, viewport_height, render_flags=rf)
Construct(vw, vh, rf, darwin, fb, f) ==
    /\ pc = "new"
    /\ viewport_width' = vw
    /\ viewport_height' = vh
    /\ render_flags' = IF darwin THEN [rf EXCEPT !.shadows = FALSE] ELSE rf
    /\ LET w == create(World, f, os_environ, vw, vh, fb)
       IN  /\ Outcome("__init__", {}, w)
           /\ pc' = IF w.exc = NoExc THEN "live" ELSE "failed"
    /\ UNCHANGED os_environ

\* r.viewport_width = vw; r.viewport_height = vh
SetViewport(vw, vh) ==
    /\ pc = "live"
    /\ viewport_width' = vw
    /\ viewport_height' = vh
    /\ Outcome("viewport", {}, World)
    /\ UNCHANGED <<pc, os_environ, render_flags, tvars>>

\* r.render_flags = rf
SetRenderFlags(rf) ==
    /\ pc = "live"
    /\ render_flags' = rf
    /\ Outcome("render_flags", {}, World)
    /\ UNCHANGED <<pc, os_environ, viewport_width, viewport_height, tvars>>

\* r.render(scene, flags)
Render(flags, fb, f) ==
    /\ pc = "live"
    /\ Len(platforms) < MaxPlatforms
    /\ Outcome("render", flags,
               render(World, f, os_environ, viewport_width, viewport_height,
                      render_flags, flags, fb))
    /\ UNCHANGED <<pc, os_environ, viewport_width, viewport_height,
                   render_flags>>

\* r.delete()
Delete(f) ==
    /\ pc = "live"
    /\ Outcome("delete", {}, delete(World, f))
    /\ UNCHANGED <<pc, os_environ, viewport_width, viewport_height,
                   render_flags>>

\* the object is collected: __del__ runs, also on an object whose __init__ raised
Del(f) ==
    /\ pc \in {"live", "failed"}
    /\ Outcome("__del__", {}, del(World, f))
    /\ pc' = "dead"
    /\ UNCHANGED <<os_environ, viewport_width, viewport_height,
                   render_flags>>

\* ------------------------------------------------------------ render_360degree.py
\* Coordinates are numbers a + b*sqrt(3), written <<a, b>>, over a common power of two:
\* the sines and cosines of the multiples of 30 degrees are exact in this form.
ZAdd(p, q) == <<p[1] + q[1], p[2] + q[2]>>

ZMul(p, q) == <<p[1] * q[1] + 3 * p[2] * q[2], p[1] * q[2] + p[2] * q[1]>>

ZNeg(p) == <<-p[1], -p[2]>>

Z(n) == <<n, 0>>

\* 2 * np.cos(theta / 180 * np.pi), theta a multiple of 30
cos2(theta) ==
    LET t == theta % 360
    IN  CASE t = 0 -> <<2, 0>>   [] t = 30 -> <<0, 1>>   [] t = 60 -> <<1, 0>>
          [] t = 90 -> <<0, 0>>  [] t = 120 -> <<-1, 0>> [] t = 150 -> <<0, -1>>
          [] t = 180 -> <<-2, 0>> [] t = 210 -> <<0, -1>> [] t = 240 -> <<-1, 0>>
          [] t = 270 -> <<0, 0>> [] t = 300 -> <<1, 0>>  [] t = 330 -> <<0, 1>>

\* 2 * np.sin(theta / 180 * np.pi), theta a multiple of 30
sin2(theta) ==
    LET t == theta % 360
    IN  CASE t = 0 -> <<0, 0>>   [] t = 30 -> <<1, 0>>   [] t = 60 -> <<0, 1>>
          [] t = 90 -> <<2, 0>>  [] t = 120 -> <<0, 1>>  [] t = 150 -> <<1, 0>>
          [] t = 180 -> <<0, 0>> [] t = 210 -> <<-1, 0>> [] t = 240 -> <<0, -1>>
          [] t = 270 -> <<-2, 0>> [] t = 300 -> <<0, -1>> [] t = 330 -> <<-1, 0>>

\* rotationy, the sine of the third row not negated
rotationy_SineNotNegated(theta) ==
    << <<cos2(theta), Z(0), sin2(theta), Z(0)>>,
       <<Z(0), Z(2), Z(0), Z(0)>>,
       <<sin2(theta), Z(0), cos2(theta), Z(0)>>,
       <<Z(0), Z(0), Z(0), Z(2)>> >>

\* twice the matrix rotationy(theta) returns
rotationy(theta) ==
    << <<cos2(theta), Z(0), sin2(theta), Z(0)>>,
       <<Z(0), Z(2), Z(0), Z(0)>>,
       <<ZNeg(sin2(theta)), Z(0), cos2(theta), Z(0)>>,
       <<Z(0), Z(0), Z(0), Z(2)>> >>

\* m[:3, :3]
Slice3(m) == [i \in 1..3 |-> [j \in 1..3 |-> m[i][j]]]

\* m.transpose()
Transpose(m) == [i \in 1..3 |-> [j \in 1..3 |-> m[j][i]]]

\* np.matmul(v, m), v an n x 3 array
MatMul(v, m) ==
    [i \in 1..Len(v) |->
        [j \in 1..3 |-> ZAdd(ZAdd(ZMul(v[i][1], m[1][j]), ZMul(v[i][2], m[2][j])),
                             ZMul(v[i][3], m[3][j]))]]

\* angle = 360 / view_num, exact for the view numbers of ViewNums
Angle(n) == 360 \div n

\* the view numbers whose angle is a multiple of 30 degrees
ViewNums == {n \in 1..MaxViewNum : 360 % n = 0 /\ (360 \div n) % 30 = 0}

Vertex(x, y, z) == <<Z(x), Z(y), Z(z)>>

\* what objio.load_obj_data returns: vertices, and vertex colours (in tenths) if the file has them
MeshFiles ==
    {[v |-> <<Vertex(1, 0, 0)>>],
     [v |-> <<Vertex(1, 2, 0), Vertex(0, -1, 2)>>],
     [v |-> <<Vertex(1, 2, 0), Vertex(0, -1, 2)>>, vc |-> <<<<10, 0, 0>>, <<0, 10, 0>>>>],
     [v |-> <<Vertex(2, 0, 1), Vertex(-1, 1, 1), Vertex(0, 0, -2)>>]}

\* the argument color: None, or an array of rows (in tenths)
ColorArgs ==
    {[given |-> FALSE, rows |-> <<>>]}
    \cup {[given |-> TRUE, rows |-> r] :
            r \in {<<>>, <<<<7, 6, 5>>>>, <<<<1, 2, 3>>, <<4, 5, 6>>>>,
                   <<<<1, 2, 3>>, <<4, 5, 6>>, <<7, 8, 9>>>>}}

\* np.ones_like(v)
OnesLike(v) == [i \in 1..Len(v) |-> <<1, 1, 1>>]

\* m * c, c a scalar
TimesScalar(m, c) == [i \in 1..Len(m) |-> [j \in 1..3 |-> m[i][j] * c]]

\* m * rows, rows an array of one row, broadcast over the rows of m
TimesRow(m, rows) == [i \in 1..Len(m) |-> [j \in 1..3 |-> m[i][j] * rows[1][j]]]

\* AssignColors, a single row not broadcast
AssignColors_NoBroadcast(m, color) ==
    LET m1 == IF "vc" \notin DOMAIN m
              THEN ("vc" :> TimesScalar(OnesLike(m.v), 8)) @@ m
              ELSE m
    IN  IF ~color.given THEN [mesh |-> m1, exc |-> NoExc]
        ELSE IF Len(m1.v) = Len(color.rows)
             THEN [mesh |-> [m1 EXCEPT !.vc = color.rows], exc |-> NoExc]
        ELSE [mesh |-> m1, exc |-> "AssertionError"]

\* lines 103-110 of main: the vertex colours, or the failed assertion of line 109
AssignColors(m, color) ==
    LET m1 == IF "vc" \notin DOMAIN m
              THEN ("vc" :> TimesScalar(OnesLike(m.v), 8)) @@ m
              ELSE m
    IN  IF ~color.given THEN [mesh |-> m1, exc |-> NoExc]
        ELSE IF Len(color.rows) = 1
             THEN [mesh |-> [m1 EXCEPT !.vc = TimesRow(OnesLike(m1.v), color.rows)],
                   exc |-> NoExc]
        ELSE IF Len(m1.v) = Len(color.rows)
             THEN [mesh |-> [m1 EXCEPT !.vc = color.rows], exc |-> NoExc]
        ELSE [mesh |-> m1, exc |-> "AssertionError"]

img_res == 512

SceneNodes ==
    {"human", "plane", "light_1", "light_2", "light_3", "light_4", "cam"}

\* lines 79-159 of main: the mesh and its colours, the scene, the OffscreenRenderer
MainSetup(darwin, fb, f) ==
    /\ mpc = "start"
    /\ LET a == AssignColors(args.mesh_file, args.color)
       IN  /\ mesh' = a.mesh
           /\ IF a.exc # NoExc
              THEN /\ mpc' = "raised"
                   /\ mexc' = a.exc
                   /\ scene' = {}
                   /\ UNCHANGED <<human_node, rvars>>
              ELSE /\ human_node' = [v |-> a.mesh.v, vc |-> a.mesh.vc, denom |-> 1]
                   /\ scene' = SceneNodes
                   /\ Construct(img_res, img_res,
                                [default_render_flags EXCEPT !.shadows = args.render_shadow],
                                darwin, fb, f)
                   /\ mpc' = IF last'.exc = NoExc THEN "loop" ELSE "raised"
                   /\ mexc' = last'.exc
    /\ UNCHANGED <<args, denom, view_id, frames, shown>>

\* lines 163-170 of main: one iteration of the loop over range(view_num)
Turn(fb, f) ==
    /\ mpc = "loop"
    /\ view_id < args.view_num
    /\ LET rotmat == Slice3(rotationy(Angle(args.view_num)))
           v1 == MatMul(mesh.v, Transpose(rotmat))
           points_mesh == [v |-> v1, vc |-> mesh.vc, denom |-> denom * 2]
       IN  /\ mesh' = [mesh EXCEPT !.v = v1]
           /\ denom' = denom * 2
           /\ Render({}, fb, f)
           /\ IF last'.exc = NoExc
              THEN /\ frames' = Append(frames, human_node)
                   /\ human_node' = points_mesh
                   /\ shown' = shown + 1
                   /\ view_id' = view_id + 1
                   /\ UNCHANGED <<mpc, mexc>>
              ELSE /\ mpc' = "raised"
                   /\ mexc' = last'.exc
                   /\ UNCHANGED <<frames, human_node, shown, view_id>>
    /\ UNCHANGED <<args, scene>>

\* lines 178-179 of main: r.delete(); scene.clear()
MainFinish(f) ==
    /\ mpc = "loop"
    /\ view_id = args.view_num
    /\ Delete(f)
    /\ IF last'.exc = NoExc
       THEN /\ scene' = {}
            /\ mpc' = "done"
            /\ UNCHANGED mexc
       ELSE /\ mpc' = "raised"
            /\ mexc' = last'.exc
            /\ UNCHANGED scene
    /\ UNCHANGED <<args, mesh, denom, human_node, view_id, frames, shown>>

\* main is left, by return or by the exception: the local r is collected
MainExit(f) ==
    /\ mpc \in {"done", "raised"}
    /\ pc \in {"live", "failed"}
    /\ Del(f)
    /\ mpc' = "exited"
    /\ UNCHANGED <<args, mexc, mesh, denom, scene, human_node, view_id, frames, shown>>

\* ------------------------------------------------------------ specifications
MainWith(mpc0, as) ==
    /\ mpc = mpc0
    /\ args \in as
    /\ mexc = NoExc
    /\ mesh = <<>>
    /\ denom = 1
    /\ scene = {}
    /\ human_node = [v |-> <<>>, vc |-> <<>>, denom |-> 1]
    /\ view_id = 0
    /\ frames = <<>>
    /\ shown = 0

MainArgs ==
    [mesh_file : MeshFiles, color : ColorArgs, view_num : ViewNums,
     render_shadow : BOOLEAN]

InitWith(envs) ==
    /\ pc = "new"
    /\ os_environ \in envs
    /\ viewport_width = 0
    /\ viewport_height = 0
    /\ render_flags = default_render_flags
    /\ platform = 0
    /\ renderer = 0
    /\ platforms = <<>>
    /\ renderers = <<>>
    /\ calls = <<>>
    /\ last = [op |-> "none", arg |-> {}, exc |-> NoExc, swallowed |-> NoExc,
               fwd |-> {}, ret |-> "", old_platform |-> 0, old_renderer |-> 0]

MainIdle ==
    MainWith("idle", {[mesh_file |-> [v |-> <<>>], color |-> [given |-> FALSE, rows |-> <<>>],
                       view_num |-> 1, render_shadow |-> FALSE]})

\* the operations called on the object directly, main not running
CallConstruct(vw, vh, rf, darwin, fb, f) ==
    Construct(vw, vh, rf, darwin, fb, f) /\ UNCHANGED tvars

CallRender(flags, fb, f) == Render(flags, fb, f) /\ UNCHANGED tvars

CallDelete(f) == Delete(f) /\ UNCHANGED tvars

Collect(f) == Del(f) /\ UNCHANGED tvars

\* the life cycle: every environment, viewport change and failing library call, the
\* stored flags left at their defaults
Init == InitWith(EnvChoices) /\ MainIdle

Next ==
    \/ \E s \in ViewportSizes, darwin \in BOOLEAN, fb \in BOOLEAN, f \in CreateFails :
            CallConstruct(s[1], s[2], default_render_flags, darwin, fb, f)
    \/ \E s \in ViewportSizes : SetViewport(s[1], s[2])
    \/ \E fb \in BOOLEAN, f \in RenderFails : CallRender({}, fb, f)
    \/ \E f \in DeleteFails : CallDelete(f)
    \/ \E f \in DeleteFails : Collect(f)

Spec == Init /\ [][Next]_vars

\* the flag translation: every stored flag combination and flags argument
InitFlags == InitWith({<<>>}) /\ MainIdle

NextFlags ==
    \/ \E rf \in RenderFlagChoices, darwin \in BOOLEAN, fb \in BOOLEAN :
            CallConstruct(1, 1, rf, darwin, fb, NoFail)
    \/ SetViewport(1, 1)
    \/ \E rf \in RenderFlagChoices : SetRenderFlags(rf)
    \/ \E flags \in ArgFlagChoices, f \in {NoFail, "Renderer.render"} :
            CallRender(flags, FALSE, f)
    \/ CallDelete(NoFail)
    \/ Collect(NoFail)

SpecFlags == InitFlags /\ [][NextFlags]_vars

\* the turntable: main() on every mesh, colour argument and view number
InitMain ==
    /\ InitWith({<<>>, ("PYOPENGL_PLATFORM" :> "osmesa"), ("PYOPENGL_PLATFORM" :> "")})
    /\ MainWith("start", MainArgs)

NextMain ==
    \/ \E darwin \in BOOLEAN, fb \in BOOLEAN, f \in {NoFail, "Renderer"} :
            MainSetup(darwin, fb, f)
    \/ \E fb \in BOOLEAN, f \in {NoFail, "Renderer.render"} : Turn(fb, f)
    \/ \E f \in DeleteFails : MainFinish(f)
    \/ \E f \in DeleteFails : MainExit(f)

SpecMain == InitMain /\ [][NextMain]_vars

\* ------------------------------------------------------------ properties
Called(name) == \E i \in 1..Len(calls) : calls[i] = name

EnvHas(name) == name \in DOMAIN os_environ

EnvIs(name, value) == EnvHas(name) /\ os_environ[name] = value

\* C1: on a successfully constructed OffscreenRenderer a second delete(), called when
\* the first has set both references to None, does not raise and leaves both None.
C1_SecondDeleteDoesNotRaise ==
    (pc = "live" /\ last.op = "delete" /\ last.old_platform = 0 /\ last.old_renderer = 0)
        => (last.exc = NoExc /\ platform = 0 /\ renderer = 0)

\* C2: construction takes the backend from PYOPENGL_PLATFORM: unset gives the pyglet
\* backend, "egl" the EGL backend on the device EGL_DEVICE_ID names (0 when unset),
\* "osmesa" the OSMesa backend; when it returns, the backend's context was initialised,
\* then made current, and the Renderer was created last.  Any other value, the empty
\* string included, raises ValueError before anything is created.  With a supported
\* value construction raises only when a library call does or the device index is
\* no number.
C2_ConstructionSelectsBackend ==
    last.op = "__init__" =>
        LET supported == \/ ~EnvHas("PYOPENGL_PLATFORM")
                         \/ EnvIs("PYOPENGL_PLATFORM", "egl")
                         \/ EnvIs("PYOPENGL_PLATFORM", "osmesa")
            tail == <<"Platform", "init_context", "make_current", "Renderer">>
        IN  /\ ~supported =>
                  /\ last.exc = "ValueError" /\ pc = "failed"
                  /\ platform = 0 /\ renderer = 0
                  /\ platforms = <<>> /\ renderers = <<>> /\ calls = <<>>
            /\ supported =>
                  \/ last.exc \in {NoExc, "LibError"}
                  \/ /\ last.exc = "ValueError"
                     /\ EnvIs("PYOPENGL_PLATFORM", "egl")
                     /\ EnvHas("EGL_DEVICE_ID")
                     /\ os_environ["EGL_DEVICE_ID"] \notin {"0", "1"}
            /\ last.exc = NoExc =>
                  /\ supported /\ pc = "live"
                  /\ platform = 1 /\ renderer = 1
                  /\ Len(platforms) = 1 /\ Len(renderers) = 1
                  /\ platforms[1].inited /\ platforms[1].current /\ ~platforms[1].deleted
                  /\ ~renderers[1].deleted
                  /\ platforms[1].viewport_width = viewport_width
                  /\ platforms[1].viewport_height = viewport_height
                  /\ ~EnvHas("PYOPENGL_PLATFORM") =>
                        platforms[1].kind = "pyglet" /\ calls = tail
                  /\ EnvIs("PYOPENGL_PLATFORM", "osmesa") =>
                        platforms[1].kind = "osmesa" /\ calls = tail
                  /\ EnvIs("PYOPENGL_PLATFORM", "egl") =>
                        /\ platforms[1].kind = "egl"
                        /\ calls = <<"get_device_by_index">> \o tail
                        /\ platforms[1].device =
                              (IF EnvIs("EGL_DEVICE_ID", "1") THEN 1 ELSE 0)

\* C2 witness: the EGL backend was built on device 1
C2_Witness ==
    /\ last.op = "__init__" /\ last.exc = NoExc /\ pc = "live"
    /\ EnvIs("PYOPENGL_PLATFORM", "egl") /\ EnvIs("EGL_DEVICE_ID", "1")
    /\ platform # 0 /\ platforms[platform].device = 1

\* C3: when the flags argument of render() holds none of the three mode bits, the
\* word given to Renderer.render holds at most one of them: FLIP_WIREFRAME exactly when
\* flip_wireframe is stored true, ALL_WIREFRAME exactly when all_wireframe is and
\* flip_wireframe is not, ALL_SOLID exactly when all_solid is and neither other is.
C3_FlagPriority ==
    (last.op = "render" /\ Called("Renderer.render") /\ last.arg \cap ModeFlags = {})
        => /\ Cardinality(last.fwd \cap ModeFlags) <= 1
           /\ "FLIP_WIREFRAME" \in last.fwd <=> render_flags.flip_wireframe
           /\ "ALL_WIREFRAME" \in last.fwd <=>
                 (render_flags.all_wireframe /\ ~render_flags.flip_wireframe)
           /\ "ALL_SOLID" \in last.fwd <=>
                 (render_flags.all_solid /\ ~render_flags.all_wireframe
                    /\ ~render_flags.flip_wireframe)

\* C3 witness: all three stored flags are true, the argument is NONE, the scene was rendered
C3_Witness ==
    /\ last.op = "render" /\ Called("Renderer.render") /\ last.arg = {}
    /\ render_flags.flip_wireframe /\ render_flags.all_wireframe /\ render_flags.all_solid
    /\ last.fwd \cap ModeFlags = {"FLIP_WIREFRAME"}

\* C4: a render() that returns, called when the backend's viewport differs from the
\* object's in width or height and the backend has no dynamic framebuffers, has deleted
\* the old renderer and backend and created new ones: the backend is another object,
\* and the new backend and the renderer have the requested width and height.
C4_ResizeRecreates ==
    (/\ last.op = "render" /\ last.exc = NoExc
     /\ ~platforms[last.old_platform].supports_framebuffers
     /\ \/ platforms[last.old_platform].viewport_width # viewport_width
        \/ platforms[last.old_platform].viewport_height # viewport_height)
        => /\ platform # 0 /\ platform # last.old_platform
           /\ renderer # 0 /\ renderer # last.old_renderer
           /\ platforms[last.old_platform].deleted
           /\ renderers[last.old_renderer].deleted
           /\ ~platforms[platform].deleted /\ ~renderers[renderer].deleted
           /\ platforms[platform].viewport_width = viewport_width
           /\ platforms[platform].viewport_height = viewport_height
           /\ renderers[renderer].viewport_width = viewport_width
           /\ renderers[renderer].viewport_height = viewport_height

\* C4 witness: only the width was changed, and render() replaced the backend
C4_Witness ==
    /\ last.op = "render" /\ last.exc = NoExc
    /\ last.old_platform # 0 /\ platform # last.old_platform
    /\ platforms[last.old_platform].viewport_width # viewport_width
    /\ platforms[last.old_platform].viewport_height = viewport_height
    /\ platforms[platform].viewport_width = viewport_width

\* C5: whatever was called on a constructed OffscreenRenderer, failed calls included,
\* its backend and renderer references are both set or both None, and every backend
\* it no longer refers to was deleted.
C5_PairedReferences ==
    pc = "live" =>
        /\ (platform = 0) <=> (renderer = 0)
        /\ \A i \in 1..Len(platforms) : i # platform => platforms[i].deleted

\* C6: delete() on a live object calls Renderer.delete first and delete_context second
\* and sets both references to None only after both returned; when Renderer.delete
\* raises, delete_context is not called and both references stay.
C6_DeleteOrder ==
    (last.op = "delete" /\ last.old_platform # 0 /\ last.old_renderer # 0)
        => /\ calls \in {<<"Renderer.delete">>, <<"Renderer.delete", "delete_context">>}
           /\ last.exc = NoExc =>
                 /\ calls = <<"Renderer.delete", "delete_context">>
                 /\ platform = 0 /\ renderer = 0
                 /\ renderers[last.old_renderer].deleted
                 /\ platforms[last.old_platform].deleted
           /\ last.exc # NoExc =>
                 /\ platform = last.old_platform /\ renderer = last.old_renderer
                 /\ ~platforms[last.old_platform].deleted
           /\ calls = <<"Renderer.delete">> => last.exc # NoExc

\* C6 witness: a delete() of a live object that returned
C6_Witness ==
    /\ last.op = "delete" /\ last.old_platform # 0 /\ last.old_renderer # 0
    /\ last.exc = NoExc /\ platform = 0

\* C7: __del__ returns normally in every state of the object: constructed, deleted,
\* or left half-built by an __init__ that raised.
C7_DelNeverRaises ==
    last.op = "__del__" => (last.exc = NoExc /\ pc = "dead")

\* C7 witness: __del__ ran on an object whose __init__ raised after the backend was
\* created and before the renderer was, and swallowed the error of delete()
C7_Witness ==
    /\ last.op = "__del__" /\ last.swallowed = "AttributeError"
    /\ platform # 0 /\ renderer = 0

\* v1 / d1 and v2 / d2 are the same array of vertices
SameVertices(v1, d1, v2, d2) ==
    /\ Len(v1) = Len(v2)
    /\ \A i \in 1..Len(v1) : \A j \in 1..3 :
          ZMul(v1[i][j], Z(d2)) = ZMul(v2[i][j], Z(d1))

\* the loaded vertices turned by theta degrees about the y axis, over the denominator 2
Turned(theta) == MatMul(args.mesh_file.v, Transpose(Slice3(rotationy(theta))))

\* C8: every iteration of the loop renders one frame, and the frame of iteration k
\* shows the mesh node holding the loaded vertices turned by k * (360 / view_num)
\* degrees: the node is rebuilt before the frame is rendered.
C8_FrameShowsTurnedMesh ==
    /\ Len(frames) = view_id
    /\ shown = view_id
    /\ \A k \in 1..Len(frames) :
          SameVertices(frames[k].v, frames[k].denom, Turned(k * Angle(args.view_num)), 2)

\* C9: a colour argument of one row gives every vertex that colour; one of another
\* number of rows is used as the vertex colours when it has a row per vertex, and
\* otherwise the assertion fails with no scene node and no renderer created; without
\* the argument the file's colours are kept, and 0.8 grey is used when it has none.
C9_VertexColours ==
    mpc \notin {"idle", "start"} =>
        LET file == args.mesh_file
            rows == args.color.rows
            n == Len(file.v)
            asserted == /\ mexc = "AssertionError" /\ mpc = "raised"
                        /\ scene = {} /\ pc = "new"
                        /\ platforms = <<>> /\ renderers = <<>>
        IN  /\ (args.color.given /\ Len(rows) = 1) =>
                  /\ mexc # "AssertionError"
                  /\ Len(mesh.vc) = n
                  /\ \A i \in 1..n : mesh.vc[i] = rows[1]
            /\ (args.color.given /\ Len(rows) # 1 /\ Len(rows) = n) =>
                  /\ mexc # "AssertionError"
                  /\ mesh.vc = rows
            /\ (args.color.given /\ Len(rows) # 1 /\ Len(rows) # n) => asserted
            /\ ~args.color.given =>
                  /\ mexc # "AssertionError"
                  /\ Len(mesh.vc) = n
                  /\ "vc" \in DOMAIN file => mesh.vc = file.vc
                  /\ "vc" \notin DOMAIN file => \A i \in 1..n : mesh.vc[i] = <<8, 8, 8>>
            /\ mexc # "AssertionError" =>
                  /\ human_node.vc = mesh.vc
                  /\ \A k \in 1..Len(frames) : frames[k].vc = mesh.vc

\* C9 witness: one colour was given for a mesh of three vertices and a frame shows it
C9_Witness ==
    /\ mpc = "loop" /\ args.color.given /\ Len(args.color.rows) = 1
    /\ Len(args.mesh_file.v) = 3 /\ Len(frames) > 0
    /\ \A i \in 1..3 : frames[1].vc[i] = args.color.rows[1]

\* C10: after the view_num iterations of the loop, each turning the vertices by
\* 360 / view_num degrees, the vertices are the loaded ones again, in `mesh` and in
\* the mesh node of the scene.
C10_FullTurnIsIdentity ==
    (mpc \in {"loop", "done", "raised", "exited"} /\ view_id = args.view_num)
        => /\ SameVertices(mesh.v, denom, args.mesh_file.v, 1)
           /\ SameVertices(human_node.v, human_node.denom, args.mesh_file.v, 1)

\* C10 witness: twelve turns of 30 degrees of a mesh of three vertices are done, and
\* the turn before the last had moved the vertices
C10_Witness ==
    /\ mpc = "loop" /\ view_id = args.view_num /\ args.view_num = 12
    /\ Len(args.mesh_file.v) = 3
    /\ ~SameVertices(frames[12].v, frames[12].denom, args.mesh_file.v, 1)

====
